---- MODULE Spec2Model ----
(***************************************************************************)
(* Endpoint lifecycle of a boringtun Peer (device/peer.rs) over the unix   *)
(* UDP socket wrapper (device/udp_unix.rs).                                *)
(*                                                                         *)
(* Several threads call Peer::set_endpoint, Peer::connect_endpoint,        *)
(* Peer::shutdown_endpoint and Peer::endpoint on one peer.  Every method   *)
(* is split at its lock operations and at each platform call, so that the  *)
(* interleavings of the threads are those the RwLock permits.  A socket is *)
(* a record of what the kernel knows about one descriptor, together with   *)
(* the trace of calls made on it and the number of owners of the Rust      *)
(* value (1 for an owned UDPSocket, the strong count once it is in an Arc).*)
(* The socket wrapper is the one built for target_os = "linux".            *)
(***************************************************************************)
EXTENDS Integers, Sequences, FiniteSets, TLC

\* ---------------------------------------------------------------- bounds
NumThreads == 2
MaxSockets == 2

Threads == 1..NumThreads

\* Option<T>: None is the empty set, Some(x) the singleton.
None == {}

Some(x) == {x}

Unwrap(o) == CHOOSE x \in o : TRUE

Option(S) == {None} \cup { Some(x) : x \in S }

\* SocketAddr values: V4 or V6, an ip and a port.
Addrs == { [fam |-> 4, host |-> "a", port |-> 1],
           [fam |-> 4, host |-> "b", port |-> 1],
           [fam |-> 6, host |-> "a", port |-> 1] }

\* u16 local ports handed to connect_endpoint.
Ports == {1}

\* Option<u32> traffic marks handed to connect_endpoint.
FwMarks == Option({7})

VARIABLES
    endpoint,    \* Peer.endpoint: [addr, conn], Options of an address and of a socket id
    rwlock,      \* the RwLock around it: [writer, readers], sets of threads
    sockets,     \* sequence of socket records, index = descriptor
    protectLog,  \* descriptors the protect callback was invoked with, in order
    pc,          \* per thread: position inside the method it is executing
    arg,         \* per thread: arguments of the method in progress
    local,       \* per thread: the `socket` / `conn` local of the method
    handles,     \* per thread: Arc<UDPSocket> handles returned and still held
    result,      \* per thread: what the method in progress is about to return
    snap,        \* per thread: state seen when the lock was acquired
    allowed_ips, \* Peer.allowed_ips: the table of ranges
    alock,       \* the RwLock around it: [writer, readers]
    aarg,        \* per thread: arguments of the allowed-IP method in progress
    committed    \* the table as the last finished writer (or Peer::new) left it

\* the allowed-IP side of the Peer
avars == <<allowed_ips, alock, aarg, committed>>

\* the endpoint side of the Peer, apart from pc and result
evars == <<endpoint, rwlock, sockets, protectLog, arg, local, handles, snap>>

vars == <<endpoint, rwlock, sockets, protectLog, pc, arg, local, handles, result, snap,
          allowed_ips, alock, aarg, committed>>

\* ------------------------------------------------------------ Error values
\* Error::Connect("Connected") of connect_endpoint
ErrConnected == [kind |-> "Connect", msg |-> "Connected"]

\* errno_str() of the platform, one text per failing call
ErrnoStr(call) == "errno"

ErrOf(kind, call) == [kind |-> kind, msg |-> ErrnoStr(call)]

Ok(s) == [kind |-> "Ok", sock |-> s]

Unit == [kind |-> "Unit"]

Panic == [kind |-> "Panic"]

\* the method has not returned yet
Pending == [kind |-> "Pending"]

\* ------------------------------------------------------------------ Endpoint
Endpoint(a, c) == [addr |-> a, conn |-> c]

\* Peer::new: endpoint = Endpoint { addr: endpoint, conn: None }
PeerNew(a) == Endpoint(a, None)

\* ------------------------------------------------------------------ RwLock
\* mutant: write() that does not wait for the other guards
WriteLockNeverWaits(l) == TRUE

WriteLockFree(l) == l.writer = {} /\ l.readers = {}

\* mutant: a read lock that is granted while a writer is inside
ReadLockNeverWaits(l) == TRUE

\* RwLock::read() is granted when no writer holds the lock
ReadLockFree(l) == l.writer = {}

NoArg == [addr |-> None, port |-> None, fwmark |-> None]

NoSnap == [ep |-> Endpoint(None, None), nsock |-> 0, nprot |-> 0, trace |-> <<>>]

TraceOf(socks, c) == IF c = None THEN <<>> ELSE socks[Unwrap(c)].trace

TakeSnap == [ep |-> endpoint, nsock |-> Len(sockets), nprot |-> Len(protectLog),
             trace |-> TraceOf(sockets, endpoint.conn)]

\* ------------------------------------------------------------------ UDPSocket
\* UDPSocket::new / new6 after socket() returned descriptor fd: the value
\* UDPSocket { fd, version } and the synchronous protect.make_external(fd).
UDPSocketNew(fd, version) ==
    [fd |-> fd, version |-> version, trace |-> <<"socket", "protect">>,
     mark |-> None, nonblock |-> FALSE, reuse |-> FALSE,
     port |-> None, peer |-> None, owners |-> 1, closes |-> 0]

IsOpen(sock) == sock.closes = 0

\* A platform call on the descriptor of socket s is appended to its trace.
Called(socks, s, call) ==
    [socks EXCEPT ![s].trace = Append(@, call)]

\* Drop for UDPSocket: close(self.fd).  The descriptor is released: the kernel
\* keeps nothing of it, and the record keeps only how often it was closed.
DropUDPSocket(socks, s) ==
    [socks EXCEPT ![s] = [UDPSocketNew(@.fd, @.version) EXCEPT
                             !.trace = <<>>, !.owners = socks[s].owners,
                             !.closes = socks[s].closes + 1]]

\* mutant: the value is dropped with its first owner, not its last
DropOwnerEager(socks, s) ==
    DropUDPSocket([socks EXCEPT ![s].owners = @ - 1], s)

\* Dropping one owner of the value (an owned UDPSocket, or one Arc clone): the
\* value is dropped when the last owner goes.
DropOwner(socks, s) ==
    LET less == [socks EXCEPT ![s].owners = @ - 1]
    IN  IF less[s].owners = 0 THEN DropUDPSocket(less, s) ELSE less

\* Arc::clone
CloneOwner(socks, s) == [socks EXCEPT ![s].owners = @ + 1]

\* mutant: the old transport is dropped without shutdown()
ShutdownOmitted(socks, s) == socks

\* UDPSocket::shutdown: shutdown(self.fd, SHUT_RDWR)
Shutdown(socks, s) == Called(socks, s, "shutdown")

\* mutant: the chain ends at bind, connect() is never called
ConnectOmitted(socks, s, dst) == socks

\* the sockaddr_in / sockaddr_in6 that connect4 / connect6 build from dst
Sockaddr(dst) ==
    [sa_family |-> IF dst.fam = 4 THEN "AF_INET" ELSE "AF_INET6",
     sa_addr |-> dst.host, sa_port |-> dst.port]

\* UDPSocket::connect: connect4 / connect6 by the family of dst
Connect(socks, s, dst) ==
    [Called(socks, s, "connect") EXCEPT ![s].peer = Some(Sockaddr(dst))]

\* ------------------------------------------------------------------ AllowedIP
\* IpAddr::V4 / IpAddr::V6: the address as its octets
V4(o) == [fam |-> 4, octets |-> o]

V6(o) == [fam |-> 6, octets |-> o]

\* AllowedIP { addr, cidr }: both fields are pub, cidr is a u8
AllowedIP(addr, cidr) == [addr |-> addr, cidr |-> cidr]

\* s.split(sep).collect(): the pieces of txt between the separators
RECURSIVE Split(_, _)
Split(txt, sep) ==
    IF \E i \in DOMAIN txt : txt[i] = sep
    THEN LET i == CHOOSE i \in DOMAIN txt :
                      txt[i] = sep /\ \A j \in 1..(i - 1) : txt[j] # sep
         IN  <<SubSeq(txt, 1, i - 1)>> \o Split(SubSeq(txt, i + 1, Len(txt)), sep)
    ELSE <<txt>>

DigitOf ==
    [c \in {"0", "1", "2", "3", "4", "5", "6", "7", "8", "9"} |->
        CASE c = "0" -> 0 [] c = "1" -> 1 [] c = "2" -> 2 [] c = "3" -> 3
          [] c = "4" -> 4 [] c = "5" -> 5 [] c = "6" -> 6 [] c = "7" -> 7
          [] c = "8" -> 8 [] c = "9" -> 9]

RECURSIVE Decimal(_)
Decimal(txt) ==
    IF txt = <<>> THEN 0
    ELSE Decimal(SubSeq(txt, 1, Len(txt) - 1)) * 10 + DigitOf[txt[Len(txt)]]

AllDigits(txt) == txt # <<>> /\ \A i \in DOMAIN txt : txt[i] \in DOMAIN DigitOf

\* str::parse::<u8>(): decimal digits of a value that fits eight bits
ParseU8(txt) ==
    IF AllDigits(txt) /\ Decimal(txt) <= 255
    THEN Some(Decimal(txt)) ELSE None

\* one octet of a dotted quad: as a u8, and without a leading zero
ParseOctet(txt) ==
    IF Len(txt) > 1 /\ txt[1] = "0" THEN None ELSE ParseU8(txt)

\* str::parse::<IpAddr>(): a dotted quad is a V4; of the V6 forms the texts
\* used here are "::" and "::1"
ParseIpAddr(txt) ==
    LET quad == Split(txt, ".")
    IN  IF Len(quad) = 4 /\ \A i \in 1..4 : ParseOctet(quad[i]) # None
        THEN Some(V4([i \in 1..4 |-> Unwrap(ParseOctet(quad[i]))]))
        ELSE IF txt = <<":", ":", "1">>
        THEN Some(V6([i \in 1..16 |-> IF i = 16 THEN 1 ELSE 0]))
        ELSE IF txt = <<":", ":">>
        THEN Some(V6([i \in 1..16 |-> 0]))
        ELSE None

\* AllowedIP::from_str; None stands for Err("Invalid IP format")
FromStr(s) ==
    LET ip == Split(s, "/")
    IN  IF Len(ip) # 2 THEN None
        ELSE LET addr == ParseIpAddr(ip[1])
                 cidr == ParseU8(ip[2])
             IN  IF addr = None \/ cidr = None THEN None
                 ELSE IF Unwrap(addr).fam = 4 /\ Unwrap(cidr) <= 32
                 THEN Some(AllowedIP(Unwrap(addr), Unwrap(cidr)))
                 ELSE IF Unwrap(addr).fam = 6 /\ Unwrap(cidr) <= 128
                 THEN Some(AllowedIP(Unwrap(addr), Unwrap(cidr)))
                 ELSE None

\* ------------------------------------------------------------------ AllowedIps
\* how many bits of octet i (counted from 1) lie inside a prefix of cidr bits
KeepBits(i, cidr) ==
    LET lo == 8 * (i - 1)
    IN  IF cidr >= lo + 8 THEN 8 ELSE IF cidr <= lo THEN 0 ELSE cidr - lo

\* the address with the bits after the prefix cleared
Network(addr, cidr) ==
    [addr EXCEPT !.octets =
        [i \in DOMAIN @ |->
            LET drop == 2 ^ (8 - KeepBits(i, cidr))
            IN  (@[i] \div drop) * drop]]

\* the range r contains the address x
Contains(r, x) ==
    /\ x.fam = r.addr.fam
    /\ Network(x, r.cidr) = Network(r.addr, r.cidr)

\* AllowedIps::insert(addr, cidr, ()): the range is added; an identical range
\* is overwritten
Insert(table, addr, cidr) == table \cup {AllowedIP(Network(addr, cidr), cidr)}

RECURSIVE InsertAll(_, _)
InsertAll(table, list) ==
    IF list = <<>> THEN table
    ELSE InsertAll(Insert(table, Head(list).addr, Head(list).cidr), Tail(list))

\* FromIterator for AllowedIps: a new table holding the ranges of the list
Collect(list) == InsertAll({}, list)

\* AllowedIps::find(addr): the most specific stored range that contains addr
Find(table, x) ==
    LET matching == { r \in table : Contains(r, x) }
    IN  IF matching = {} THEN None
        ELSE Some(CHOOSE r \in matching : \A q \in matching : q.cidr <= r.cidr)

\* AllowedIps::iter()
Iter(table) == table

\* ------------------------------------------------------------------ Init
\* arguments of set_allowed_ips / add_allowed_ips / is_allowed_ip
NoAArg == [list |-> <<>>, next |-> 1, addr |-> None]

\* Peer::new(.., endpoint, allowed_ips, ..): nobody has called a method yet
PeerInit(a, list) ==
    /\ endpoint = PeerNew(a)
    /\ rwlock = [writer |-> {}, readers |-> {}]
    /\ sockets = <<>>
    /\ protectLog = <<>>
    /\ pc = [t \in Threads |-> "idle"]
    /\ arg = [t \in Threads |-> NoArg]
    /\ local = [t \in Threads |-> None]
    /\ handles = [t \in Threads |-> {}]
    /\ result = [t \in Threads |-> Pending]
    /\ snap = [t \in Threads |-> NoSnap]
    /\ allowed_ips = Collect(list)
    /\ alock = [writer |-> {}, readers |-> {}]
    /\ aarg = [t \in Threads |-> NoAArg]
    /\ committed = Collect(list)

\* a peer with any endpoint address and no allowed IPs
Init == \E a \in Option(Addrs) : PeerInit(a, <<>>)

\* ------------------------------------------------------------ callers
\* A thread enters one of the Peer methods.
Call(t, where, a) ==
    /\ pc[t] = "idle"
    /\ pc' = [pc EXCEPT ![t] = where]
    /\ arg' = [arg EXCEPT ![t] = a]
    /\ UNCHANGED <<avars, endpoint, rwlock, sockets, protectLog, local, handles, result, snap>>

CallSetEndpoint(t) ==
    \E a \in Addrs : Call(t, "se_lock", [NoArg EXCEPT !.addr = Some(a)])

CallConnectEndpoint(t) ==
    \E p \in Ports, m \in FwMarks :
        Call(t, "ce_lock", [NoArg EXCEPT !.port = Some(p), !.fwmark = m])

CallShutdownEndpoint(t) == Call(t, "sd_lock", NoArg)

CallEndpoint(t) == Call(t, "rd_lock", NoArg)

\* self.endpoint.write() at the head of the three mutating methods
AcquireWrite(t) ==
    /\ pc[t] \in {"se_lock", "ce_lock", "sd_lock"}
    /\ WriteLockFree(rwlock)
    /\ rwlock' = [rwlock EXCEPT !.writer = {t}]
    /\ pc' = [pc EXCEPT ![t] = CASE pc[t] = "se_lock" -> "se_check"
                                 [] pc[t] = "ce_lock" -> "ce_check"
                                 [] pc[t] = "sd_lock" -> "sd_take"]
    /\ snap' = [snap EXCEPT ![t] = TakeSnap]
    /\ UNCHANGED <<avars, endpoint, sockets, protectLog, arg, local, handles, result>>

\* mutant: a panic leaves the lock held by the thread that unwound
ReleaseWriteLostOnPanic(t) ==
    /\ pc[t] \in {"se_unlock", "ce_unlock", "sd_unlock"}
    /\ rwlock.writer = {t}
    /\ rwlock' = IF result[t] = Panic THEN rwlock ELSE [rwlock EXCEPT !.writer = {}]
    /\ pc' = [pc EXCEPT ![t] = IF result[t] = Panic THEN "dead" ELSE "idle"]
    /\ handles' = [handles EXCEPT ![t] =
                     IF result[t].kind = "Ok"
                     THEN @ \cup {result[t].sock} ELSE @]
    /\ local' = [local EXCEPT ![t] = None]
    /\ snap' = [snap EXCEPT ![t] = NoSnap]
    /\ arg' = [arg EXCEPT ![t] = NoArg]
    /\ result' = [result EXCEPT ![t] = Pending]
    /\ UNCHANGED <<avars, endpoint, sockets, protectLog>>

\* The write guard goes out of scope and the method returns (or unwinds).
ReleaseWrite(t) ==
    /\ pc[t] \in {"se_unlock", "ce_unlock", "sd_unlock"}
    /\ rwlock.writer = {t}
    /\ rwlock' = [rwlock EXCEPT !.writer = {}]
    /\ pc' = [pc EXCEPT ![t] = IF result[t] = Panic THEN "dead" ELSE "idle"]
    /\ handles' = [handles EXCEPT ![t] =
                     IF result[t].kind = "Ok"
                     THEN @ \cup {result[t].sock} ELSE @]
    /\ local' = [local EXCEPT ![t] = None]
    /\ snap' = [snap EXCEPT ![t] = NoSnap]
    /\ arg' = [arg EXCEPT ![t] = NoArg]
    /\ result' = [result EXCEPT ![t] = Pending]
    /\ UNCHANGED <<avars, endpoint, sockets, protectLog>>

\* a thread is waiting in write(): read() then waits too, so that readers
\* cannot starve a writer
WriterParked(at) == \E u \in Threads : pc[u] \in at

\* self.endpoint.read() of Peer::endpoint; the guard is handed to the caller
AcquireRead(t) ==
    /\ pc[t] = "rd_lock"
    /\ ReadLockFree(rwlock)
    /\ ~WriterParked({"se_lock", "ce_lock", "sd_lock"})
    /\ rwlock' = [rwlock EXCEPT !.readers = @ \cup {t}]
    /\ pc' = [pc EXCEPT ![t] = "rd_held"]
    /\ snap' = [snap EXCEPT ![t] = TakeSnap]
    /\ UNCHANGED <<avars, endpoint, sockets, protectLog, arg, local, handles, result>>

\* The caller drops the RwLockReadGuard.
ReleaseRead(t) ==
    /\ pc[t] = "rd_held"
    /\ rwlock' = [rwlock EXCEPT !.readers = @ \ {t}]
    /\ pc' = [pc EXCEPT ![t] = "idle"]
    /\ snap' = [snap EXCEPT ![t] = NoSnap]
    /\ UNCHANGED <<avars, endpoint, sockets, protectLog, arg, local, handles, result>>

\* The caller drops an Arc<UDPSocket> that connect_endpoint returned to it.
DropHandle(t) ==
    \E s \in handles[t] :
        /\ pc[t] = "idle"
        /\ handles' = [handles EXCEPT ![t] = @ \ {s}]
        /\ sockets' = DropOwner(sockets, s)
        /\ UNCHANGED <<avars, endpoint, rwlock, protectLog, pc, arg, local, result, snap>>

\* ---------------------------------------------------------- UDPSocket::write
\* shutdown(fd, SHUT_RDWR) has been called on the descriptor
WasShutDown(sock) == \E i \in DOMAIN sock.trace : sock.trace[i] = "shutdown"

\* send(fd, buf, len, 0) on the descriptor, as write_fd returns it: -1 becomes
\* 0; a datagram that leaves goes to the address the socket is connected to.
\* The call can fail on any socket, and always fails on one that is shut down
\* or not connected.
Send(sock) ==
    {[n |-> 0, to |-> None]} \cup
    (IF sock.peer # None /\ ~WasShutDown(sock)
     THEN {[n |-> 1, to |-> sock.peer]} ELSE {})

\* A caller sends on an Arc<UDPSocket> handle connect_endpoint gave it; it
\* takes no lock of the Peer.
Write(t) ==
    \E s \in handles[t] : \E out \in Send(sockets[s]) :
        /\ pc[t] = "idle"
        /\ pc' = [pc EXCEPT ![t] = "wr_ret"]
        /\ result' = [result EXCEPT ![t] =
                        [kind |-> "Written", sock |-> s, n |-> out.n,
                         to |-> out.to, ep |-> endpoint]]
        /\ UNCHANGED <<avars, endpoint, rwlock, sockets, protectLog, arg, local, handles, snap>>

\* write() returns to the caller
WriteReturn(t) ==
    /\ pc[t] = "wr_ret"
    /\ pc' = [pc EXCEPT ![t] = "idle"]
    /\ result' = [result EXCEPT ![t] = Pending]
    /\ UNCHANGED <<avars, endpoint, rwlock, sockets, protectLog, arg, local, handles, snap>>

\* ------------------------------------------------------------ set_endpoint
\* mutant: set_endpoint without the comparison
AddrAlwaysDiffers(ep, a) == TRUE

\* endpoint.addr != Some(addr)
AddrDiffers(ep, a) == ep.addr # Some(a)

\* Endpoint { addr: Some(addr), conn: None }
Replacement(ep, a) == Endpoint(Some(a), None)

SeCheck(t) ==
    /\ pc[t] = "se_check"
    /\ IF AddrDiffers(endpoint, Unwrap(arg[t].addr))
       THEN /\ pc' = [pc EXCEPT ![t] = "se_take"]
            /\ result' = result
       ELSE /\ pc' = [pc EXCEPT ![t] = "se_unlock"]
            /\ result' = [result EXCEPT ![t] = Unit]
    /\ UNCHANGED <<avars, endpoint, rwlock, sockets, protectLog, arg, local, handles, snap>>

\* mutant: the whole Endpoint is taken (reset to its default), not only conn
TakeEndpoint(t, some, none) ==
    /\ local' = [local EXCEPT ![t] = endpoint.conn]
    /\ endpoint' = Endpoint(None, None)
    /\ pc' = [pc EXCEPT ![t] = IF endpoint.conn # None THEN some ELSE none]
    /\ UNCHANGED <<avars, rwlock, sockets, protectLog, arg, handles, snap>>

\* if let Some(conn) = endpoint.conn.take()
Take(t, some, none) ==
    /\ local' = [local EXCEPT ![t] = endpoint.conn]
    /\ endpoint' = [endpoint EXCEPT !.conn = None]
    /\ pc' = [pc EXCEPT ![t] = IF endpoint.conn # None THEN some ELSE none]
    /\ UNCHANGED <<avars, rwlock, sockets, protectLog, arg, handles, snap>>

\* conn.shutdown()
ShutdownConn(t, next) ==
    /\ sockets' = Shutdown(sockets, Unwrap(local[t]))
    /\ pc' = [pc EXCEPT ![t] = next]
    /\ UNCHANGED <<avars, endpoint, rwlock, protectLog, arg, local, handles, result, snap>>

\* the taken `conn` goes out of scope at the end of the if-let body
DropConn(t, next) ==
    /\ sockets' = DropOwner(sockets, Unwrap(local[t]))
    /\ local' = [local EXCEPT ![t] = None]
    /\ pc' = [pc EXCEPT ![t] = next]
    /\ UNCHANGED <<avars, endpoint, rwlock, protectLog, arg, handles, snap>>

\* mutant: set_endpoint calls shutdown_endpoint while it holds the guard
SeCallsShutdown(t) ==
    /\ pc[t] = "se_take"
    /\ pc' = [pc EXCEPT ![t] = "sd_lock"]
    /\ UNCHANGED <<avars, endpoint, rwlock, sockets, protectLog, arg, local, handles, result, snap>>

SeTake(t) ==
    /\ pc[t] = "se_take"
    /\ Take(t, "se_shutdown", "se_store")
    /\ result' = result

\* mutant: the old transport is pointed at the new address, not shut down
SeReconnect(t) ==
    /\ pc[t] = "se_shutdown"
    /\ sockets' = Connect(sockets, Unwrap(local[t]), Unwrap(arg[t].addr))
    /\ pc' = [pc EXCEPT ![t] = "se_drop"]
    /\ UNCHANGED <<avars, endpoint, rwlock, protectLog, arg, local, handles, result, snap>>

SeShutdown(t) ==
    /\ pc[t] = "se_shutdown"
    /\ ShutdownConn(t, "se_drop")

SeDrop(t) ==
    /\ pc[t] = "se_drop"
    /\ DropConn(t, "se_store")
    /\ result' = result

\* *endpoint = Endpoint { .. }: the old value is dropped, its conn with it
SeStore(t) ==
    /\ pc[t] = "se_store"
    /\ endpoint' = Replacement(endpoint, Unwrap(arg[t].addr))
    /\ sockets' = IF endpoint.conn # None
                  THEN DropOwner(sockets, Unwrap(endpoint.conn)) ELSE sockets
    /\ pc' = [pc EXCEPT ![t] = "se_unlock"]
    /\ result' = [result EXCEPT ![t] = Unit]
    /\ UNCHANGED <<avars, rwlock, protectLog, arg, local, handles, snap>>

\* ------------------------------------------------------- shutdown_endpoint
SdTake(t) ==
    /\ pc[t] = "sd_take"
    /\ Take(t, "sd_shutdown", "sd_unlock")
    /\ result' = [result EXCEPT ![t] = IF endpoint.conn # None THEN @ ELSE Unit]

SdShutdown(t) ==
    /\ pc[t] = "sd_shutdown"
    /\ ShutdownConn(t, "sd_drop")

SdDrop(t) ==
    /\ pc[t] = "sd_drop"
    /\ DropConn(t, "sd_unlock")
    /\ result' = [result EXCEPT ![t] = Unit]

\* ------------------------------------------------------- connect_endpoint
\* mutant: connect_endpoint without its guard
GuardOmitted(ep) == FALSE

\* endpoint.conn.is_some()
AlreadyConnected(ep) == ep.conn # None

CeCheck(t) ==
    /\ pc[t] = "ce_check"
    /\ IF AlreadyConnected(endpoint)
       THEN /\ pc' = [pc EXCEPT ![t] = "ce_unlock"]
            /\ result' = [result EXCEPT ![t] = ErrConnected]
       ELSE /\ pc' = [pc EXCEPT ![t] = "ce_socket"]
            /\ result' = result
    /\ UNCHANGED <<avars, endpoint, rwlock, sockets, protectLog, arg, local, handles, snap>>

\* mutant: UDPSocket::new, a version 4 socket, for either family
VersionAlwaysFour(a) == 4

\* The version of the socket the match on endpoint.addr asks for:
\* V4 => UDPSocket::new (version 4), V6 => UDPSocket::new6 (version 6).
VersionFor(a) == IF a.fam = 4 THEN 4 ELSE 6

\* mutant: the traffic mark is never applied
AfterNewIgnoresMark(fwmark) == "ce_nonblock"

\* where connect_endpoint goes after the socket is created: set_fwmark is
\* called only when fwmark is Some
AfterNew(fwmark) == IF fwmark # None THEN "ce_fwmark" ELSE "ce_nonblock"

\* None => panic!("Attempt to connect to undefined endpoint")
CeNoAddr(t) ==
    /\ pc[t] = "ce_socket"
    /\ endpoint.addr = None
    /\ pc' = [pc EXCEPT ![t] = "ce_unlock"]
    /\ result' = [result EXCEPT ![t] = Panic]
    /\ UNCHANGED <<avars, endpoint, rwlock, sockets, protectLog, arg, local, handles, snap>>

\* socket(AF_INET / AF_INET6, SOCK_DGRAM, 0) returns -1: Err(Error::Socket)
CeSocketFails(t) ==
    /\ pc[t] = "ce_socket"
    /\ endpoint.addr # None
    /\ pc' = [pc EXCEPT ![t] = "ce_unlock"]
    /\ result' = [result EXCEPT ![t] = ErrOf("Socket", "socket")]
    /\ UNCHANGED <<avars, endpoint, rwlock, sockets, protectLog, arg, local, handles, snap>>

\* mutant: UDPSocket::new returns the socket without calling make_external
CeSocketUnprotected(t) ==
    /\ pc[t] = "ce_socket"
    /\ endpoint.addr # None
    /\ Len(sockets) < MaxSockets
    /\ LET fd == Len(sockets) + 1
           new == UDPSocketNew(fd, VersionFor(Unwrap(endpoint.addr)))
       IN  /\ sockets' = Append(sockets, [new EXCEPT !.trace = <<"socket">>])
           /\ local' = [local EXCEPT ![t] = Some(fd)]
    /\ pc' = [pc EXCEPT ![t] = AfterNew(arg[t].fwmark)]
    /\ UNCHANGED <<avars, endpoint, rwlock, protectLog, arg, handles, result, snap>>

\* socket() returns a descriptor; protect.make_external(fd) is called on it
CeSocket(t) ==
    /\ pc[t] = "ce_socket"
    /\ endpoint.addr # None
    /\ Len(sockets) < MaxSockets
    /\ LET fd == Len(sockets) + 1
       IN  /\ sockets' = Append(sockets, UDPSocketNew(fd, VersionFor(Unwrap(endpoint.addr))))
           /\ protectLog' = Append(protectLog, fd)
           /\ local' = [local EXCEPT ![t] = Some(fd)]
    /\ pc' = [pc EXCEPT ![t] = AfterNew(arg[t].fwmark)]
    /\ UNCHANGED <<avars, endpoint, rwlock, arg, handles, result, snap>>

\* mutant: the failed descriptor is forgotten, not dropped
FailedLeaks(socks, s, call) == Called(socks, s, call)

\* A call of the chain returned Err and `?` returns it: the UDPSocket value
\* the method owns is dropped on the way out.
Failed(socks, s, call) == DropOwner(Called(socks, s, call), s)

CeFail(t, kind, call) ==
    /\ sockets' = Failed(sockets, Unwrap(local[t]), call)
    /\ local' = [local EXCEPT ![t] = None]
    /\ result' = [result EXCEPT ![t] = ErrOf(kind, call)]
    /\ pc' = [pc EXCEPT ![t] = "ce_unlock"]
    /\ UNCHANGED <<avars, endpoint, rwlock, protectLog, arg, handles, snap>>

CeNext(t, socks, next) ==
    /\ sockets' = socks
    /\ pc' = [pc EXCEPT ![t] = next]
    /\ UNCHANGED <<avars, endpoint, rwlock, protectLog, arg, local, handles, result, snap>>

\* UDPSocket::set_fwmark: setsockopt(fd, SOL_SOCKET, SO_MARK, mark)
SetFwmark(socks, s, mark) ==
    [Called(socks, s, "fwmark") EXCEPT ![s].mark = Some(mark)]

\* UDPSocket::set_non_blocking: fcntl(F_GETFL), fcntl(F_SETFL, flags | O_NONBLOCK)
SetNonBlocking(socks, s) ==
    [Called(socks, s, "nonblock") EXCEPT ![s].nonblock = TRUE]

\* UDPSocket::set_reuse: setsockopt(fd, SOL_SOCKET, SO_REUSEADDR, 1)
SetReuse(socks, s) ==
    [Called(socks, s, "reuse") EXCEPT ![s].reuse = TRUE]

\* the sockaddr_in / sockaddr_in6 that bind4 / bind6 build: wildcard address
WildcardSockaddr(version, port) ==
    [sa_family |-> IF version = 6 THEN "AF_INET6" ELSE "AF_INET",
     sa_addr |-> "ANY", sa_port |-> port]

\* UDPSocket::bind: bind6 if self.version == 6, else bind4
Bind(socks, s, port) ==
    [Called(socks, s, "bind") EXCEPT
        ![s].port = Some(WildcardSockaddr(socks[s].version, port))]

\* assert_eq!(self.version, 4) of connect4, assert_eq!(self.version, 6) of connect6
FamilyAssert(sock, dst) == IF dst.fam = 4 THEN sock.version = 4 ELSE sock.version = 6

CeFwmark(t) ==
    /\ pc[t] = "ce_fwmark"
    /\ CeNext(t, SetFwmark(sockets, Unwrap(local[t]), Unwrap(arg[t].fwmark)), "ce_nonblock")

CeFwmarkFails(t) ==
    /\ pc[t] = "ce_fwmark"
    /\ CeFail(t, "SetSockOpt", "fwmark_failed")

CeNonBlocking(t) ==
    /\ pc[t] = "ce_nonblock"
    /\ CeNext(t, SetNonBlocking(sockets, Unwrap(local[t])), "ce_reuse")

CeNonBlockingFails(t) ==
    /\ pc[t] = "ce_nonblock"
    /\ CeFail(t, "FCntl", "nonblock_failed")

CeReuse(t) ==
    /\ pc[t] = "ce_reuse"
    /\ CeNext(t, SetReuse(sockets, Unwrap(local[t])), "ce_bind")

CeReuseFails(t) ==
    /\ pc[t] = "ce_reuse"
    /\ CeFail(t, "SetSockOpt", "reuse_failed")

CeBind(t) ==
    /\ pc[t] = "ce_bind"
    /\ CeNext(t, Bind(sockets, Unwrap(local[t]), Unwrap(arg[t].port)), "ce_connect")

CeBindFails(t) ==
    /\ pc[t] = "ce_bind"
    /\ CeFail(t, "Bind", "bind_failed")

\* .connect(&endpoint.addr.unwrap())
CeConnect(t) ==
    /\ pc[t] = "ce_connect"
    /\ IF FamilyAssert(sockets[Unwrap(local[t])], Unwrap(endpoint.addr))
       THEN /\ CeNext(t, Connect(sockets, Unwrap(local[t]), Unwrap(endpoint.addr)), "ce_store")
       ELSE /\ sockets' = DropOwner(sockets, Unwrap(local[t]))
            /\ local' = [local EXCEPT ![t] = None]
            /\ result' = [result EXCEPT ![t] = Panic]
            /\ pc' = [pc EXCEPT ![t] = "ce_unlock"]
            /\ UNCHANGED <<avars, endpoint, rwlock, protectLog, arg, handles, snap>>

CeConnectFails(t) ==
    /\ pc[t] = "ce_connect"
    /\ FamilyAssert(sockets[Unwrap(local[t])], Unwrap(endpoint.addr))
    /\ CeFail(t, "Connect", "connect_failed")

\* udp_conn = Arc::new(..); endpoint.conn = Some(Arc::clone(&udp_conn)); Ok(udp_conn)
Store(ep, s) == [ep EXCEPT !.conn = Some(s)]

CeStore(t) ==
    /\ pc[t] = "ce_store"
    /\ endpoint' = Store(endpoint, Unwrap(local[t]))
    /\ sockets' = IF endpoint.conn # None
                  THEN DropOwner(CloneOwner(sockets, Unwrap(local[t])), Unwrap(endpoint.conn))
                  ELSE CloneOwner(sockets, Unwrap(local[t]))
    /\ result' = [result EXCEPT ![t] = Ok(Unwrap(local[t]))]
    /\ pc' = [pc EXCEPT ![t] = "ce_unlock"]
    /\ UNCHANGED <<avars, rwlock, protectLog, arg, local, handles, snap>>

\* ------------------------------------------------------------ allowed IPs
\* texts a configuration hands to AllowedIP::from_str
RangeTexts ==
    { <<"1", "0", ".", "0", ".", "0", ".", "5", "/", "8">>,
      <<"1", "0", ".", "0", ".", "0", ".", "5", "/", "3", "3">>,
      <<":", ":", "1", "/", "1", "2", "8">>,
      <<":", ":", "1", "/", "1", "2", "9">> }

\* AllowedIP values a caller can hand to the Peer: the ones from_str returns,
\* and one written as a struct literal, AllowedIP { addr, cidr }
Ranges ==
    { Unwrap(FromStr(txt)) : txt \in { x \in RangeTexts : FromStr(x) # None } }
    \cup { AllowedIP(V4(<<10, 0, 0, 5>>), 33) }

\* longest &[AllowedIP] handed to Peer::new, set_allowed_ips, add_allowed_ips
MaxList == 2

Lists == UNION { [1..n -> Ranges] : n \in 0..MaxList }

\* addresses asked of is_allowed_ip
Probes ==
    { V4(<<10, 0, 0, 5>>), V4(<<10, 9, 9, 9>>), V4(<<11, 0, 0, 1>>),
      V6([i \in 1..16 |-> IF i = 16 THEN 1 ELSE 0]) }

\* A thread enters one of the allowed-IP methods of the Peer.
CallAllowed(t, where, a) ==
    /\ pc[t] = "idle"
    /\ pc' = [pc EXCEPT ![t] = where]
    /\ aarg' = [aarg EXCEPT ![t] = a]
    /\ UNCHANGED <<evars, result, allowed_ips, alock, committed>>

CallSetAllowedIps(t) ==
    \E l \in Lists : CallAllowed(t, "sa_lock", [NoAArg EXCEPT !.list = l])

CallAddAllowedIps(t) ==
    \E l \in Lists : CallAllowed(t, "aa_lock", [NoAArg EXCEPT !.list = l])

CallIsAllowedIp(t) ==
    \E x \in Probes : CallAllowed(t, "ia_lock", [NoAArg EXCEPT !.addr = Some(x)])

CallAllowedIps(t) == CallAllowed(t, "ai_lock", NoAArg)

\* self.allowed_ips.write()
AcquireAllowedWrite(t) ==
    /\ pc[t] \in {"sa_lock", "aa_lock"}
    /\ WriteLockFree(alock)
    /\ alock' = [alock EXCEPT !.writer = {t}]
    /\ pc' = [pc EXCEPT ![t] = IF pc[t] = "sa_lock" THEN "sa_store" ELSE "aa_insert"]
    /\ UNCHANGED <<evars, result, allowed_ips, aarg, committed>>

\* mutant: the new ranges are inserted into the table that is there
SetAllowedIpsMerges(table, list) == InsertAll(table, list)

\* allowed_ips.iter().map(|ip| (ip, ())).collect(), assigned over the table
SetAllowedIps(table, list) == Collect(list)

SaStore(t) ==
    /\ pc[t] = "sa_store"
    /\ allowed_ips' = SetAllowedIps(allowed_ips, aarg[t].list)
    /\ pc' = [pc EXCEPT ![t] = "sa_unlock"]
    /\ UNCHANGED <<evars, result, alock, aarg, committed>>

\* mutant: the range takes the place of the table
AaInsertReplaces(t) ==
    /\ pc[t] = "aa_insert"
    /\ aarg[t].next <= Len(aarg[t].list)
    /\ LET ip == aarg[t].list[aarg[t].next]
       IN  allowed_ips' = Insert({}, ip.addr, ip.cidr)
    /\ aarg' = [aarg EXCEPT ![t].next = @ + 1]
    /\ UNCHANGED <<evars, pc, result, alock, committed>>

\* one turn of the loop: allowed_ips.insert(*addr, *cidr as u32, ())
AaInsert(t) ==
    /\ pc[t] = "aa_insert"
    /\ aarg[t].next <= Len(aarg[t].list)
    /\ LET ip == aarg[t].list[aarg[t].next]
       IN  allowed_ips' = Insert(allowed_ips, ip.addr, ip.cidr)
    /\ aarg' = [aarg EXCEPT ![t].next = @ + 1]
    /\ UNCHANGED <<evars, pc, result, alock, committed>>

\* the loop is over
AaDone(t) ==
    /\ pc[t] = "aa_insert"
    /\ aarg[t].next > Len(aarg[t].list)
    /\ pc' = [pc EXCEPT ![t] = "aa_unlock"]
    /\ UNCHANGED <<evars, result, avars>>

\* the write guard is dropped and the method returns
ReleaseAllowedWrite(t) ==
    /\ pc[t] \in {"sa_unlock", "aa_unlock"}
    /\ alock' = [alock EXCEPT !.writer = @ \ {t}]
    /\ committed' = allowed_ips
    /\ pc' = [pc EXCEPT ![t] = "idle"]
    /\ aarg' = [aarg EXCEPT ![t] = NoAArg]
    /\ UNCHANGED <<evars, result, allowed_ips>>

\* mutant: read() that is granted while a writer is inside
AcquireAllowedReadNoWait(t) ==
    /\ pc[t] \in {"ia_lock", "ai_lock"}
    /\ alock' = [alock EXCEPT !.readers = @ \cup {t}]
    /\ pc' = [pc EXCEPT ![t] = IF pc[t] = "ia_lock" THEN "ia_find" ELSE "ai_iter"]
    /\ UNCHANGED <<evars, result, allowed_ips, aarg, committed>>

\* self.allowed_ips.read()
AcquireAllowedRead(t) ==
    /\ pc[t] \in {"ia_lock", "ai_lock"}
    /\ ReadLockFree(alock)
    /\ ~WriterParked({"sa_lock", "aa_lock"})
    /\ alock' = [alock EXCEPT !.readers = @ \cup {t}]
    /\ pc' = [pc EXCEPT ![t] = IF pc[t] = "ia_lock" THEN "ia_find" ELSE "ai_iter"]
    /\ UNCHANGED <<evars, result, allowed_ips, aarg, committed>>

\* .find(addr.into()).is_some()
IaFind(t) ==
    /\ pc[t] = "ia_find"
    /\ result' = [result EXCEPT ![t] =
                    [kind |-> "Bool",
                     val |-> Find(allowed_ips, Unwrap(aarg[t].addr)) # None]]
    /\ pc' = [pc EXCEPT ![t] = "ia_unlock"]
    /\ UNCHANGED <<evars, avars>>

\* .iter().map(|(_, ip, cidr)| AllowedIP { addr: ip, cidr: cidr }).collect()
AiIter(t) ==
    /\ pc[t] = "ai_iter"
    /\ result' = [result EXCEPT ![t] =
                    [kind |-> "Vec",
                     val |-> { AllowedIP(r.addr, r.cidr) : r \in Iter(allowed_ips) }]]
    /\ pc' = [pc EXCEPT ![t] = "ai_unlock"]
    /\ UNCHANGED <<evars, avars>>

\* the read guard, a temporary of the statement, is dropped; the method returns
ReleaseAllowedRead(t) ==
    /\ pc[t] \in {"ia_unlock", "ai_unlock"}
    /\ alock' = [alock EXCEPT !.readers = @ \ {t}]
    /\ pc' = [pc EXCEPT ![t] = "idle"]
    /\ aarg' = [aarg EXCEPT ![t] = NoAArg]
    /\ result' = [result EXCEPT ![t] = Pending]
    /\ UNCHANGED <<evars, allowed_ips, committed>>

\* Peer::new with any list of ranges, and no endpoint address
InitAllowed == \E l \in Lists : PeerInit(None, l)

NextAllowed ==
    \E t \in Threads :
        \/ CallSetAllowedIps(t)
        \/ CallAddAllowedIps(t)
        \/ CallIsAllowedIp(t)
        \/ CallAllowedIps(t)
        \/ AcquireAllowedWrite(t)
        \/ SaStore(t)
        \/ AaInsert(t)
        \/ AaDone(t)
        \/ ReleaseAllowedWrite(t)
        \/ AcquireAllowedRead(t)
        \/ IaFind(t)
        \/ AiIter(t)
        \/ ReleaseAllowedRead(t)

SpecAllowed == InitAllowed /\ [][NextAllowed]_vars

\* ------------------------------------------------------------------ Next
Next ==
    \E t \in Threads :
        \/ CallSetEndpoint(t)
        \/ CallConnectEndpoint(t)
        \/ CallShutdownEndpoint(t)
        \/ CallEndpoint(t)
        \/ AcquireWrite(t)
        \/ ReleaseWrite(t)
        \/ AcquireRead(t)
        \/ ReleaseRead(t)
        \/ DropHandle(t)
        \/ SeCheck(t)
        \/ SeTake(t)
        \/ SeShutdown(t)
        \/ SeDrop(t)
        \/ SeStore(t)
        \/ SdTake(t)
        \/ SdShutdown(t)
        \/ SdDrop(t)
        \/ CeCheck(t)
        \/ CeNoAddr(t)
        \/ CeSocketFails(t)
        \/ CeSocket(t)
        \/ CeFwmark(t)
        \/ CeFwmarkFails(t)
        \/ CeNonBlocking(t)
        \/ CeNonBlockingFails(t)
        \/ CeReuse(t)
        \/ CeReuseFails(t)
        \/ CeBind(t)
        \/ CeBindFails(t)
        \/ CeConnect(t)
        \/ CeConnectFails(t)
        \/ CeStore(t)

Spec == Init /\ [][Next]_vars

\* the steps of a method between taking the write lock and returning
Running(t) ==
    \/ ReleaseWrite(t)
    \/ SeCheck(t) \/ SeTake(t) \/ SeShutdown(t) \/ SeDrop(t) \/ SeStore(t)
    \/ SdTake(t) \/ SdShutdown(t) \/ SdDrop(t)
    \/ CeCheck(t) \/ CeNoAddr(t) \/ CeSocketFails(t) \/ CeSocket(t)
    \/ CeFwmark(t) \/ CeFwmarkFails(t)
    \/ CeNonBlocking(t) \/ CeNonBlockingFails(t)
    \/ CeReuse(t) \/ CeReuseFails(t)
    \/ CeBind(t) \/ CeBindFails(t)
    \/ CeConnect(t) \/ CeConnectFails(t)
    \/ CeStore(t)

\* Threads are scheduled fairly: a method that holds the lock keeps running
\* (the platform calls and the protect callback return), a caller drops the
\* guard endpoint() gave it, and a thread waiting in write() is not passed
\* over for ever once the lock keeps becoming free.
FairSpec ==
    /\ Spec
    /\ \A t \in Threads :
        /\ WF_vars(Running(t))
        /\ WF_vars(ReleaseRead(t))
        /\ SF_vars(AcquireWrite(t))

\* The Peer's methods together with callers that send on the handles they
\* hold.
NextSend ==
    \/ Next
    \/ \E t \in Threads : Write(t) \/ WriteReturn(t)

SpecSend == Init /\ [][NextSend]_vars

\* ------------------------------------------------------------ vocabulary
SockIds == 1..Len(sockets)

\* the thread is inside the method whose positions are `at`, holding the lock
Inside(t, at) == pc[t] \in at /\ rwlock.writer = {t}

SePcs == {"se_check", "se_take", "se_shutdown", "se_drop", "se_store", "se_unlock"}

SdPcs == {"sd_take", "sd_shutdown", "sd_drop", "sd_unlock"}

CePcs == {"ce_check", "ce_socket", "ce_fwmark", "ce_nonblock", "ce_reuse",
          "ce_bind", "ce_connect", "ce_store", "ce_unlock"}

\* positions of connect_endpoint between the guard and the return
CeWorking == CePcs \ {"ce_check", "ce_unlock"}

\* who refers to socket s: the Endpoint, a method's local, a caller's handle
Referrers(s) ==
    (IF endpoint.conn = Some(s) THEN 1 ELSE 0)
    + Cardinality({ t \in Threads : local[t] = Some(s) })
    + Cardinality({ t \in Threads : s \in handles[t] })

\* the old transport s, whose trace was tr, has been shut down exactly once
\* since, or its descriptor is released
ShutOnceOrClosed(s, tr) ==
    \/ ~IsOpen(sockets[s])
    \/ sockets[s].trace = Append(tr, "shutdown")

\* ------------------------------------------------------------------ C1
\* C1: in every reachable state, a transport held by the Endpoint is open,
\* the Endpoint's address is set, and the transport is connected to exactly
\* that address.
C1_TransportBoundToAddr ==
    endpoint.conn # None =>
        LET sock == sockets[Unwrap(endpoint.conn)]
        IN  /\ endpoint.addr # None
            /\ IsOpen(sock)
            /\ sock.peer = Some(Sockaddr(Unwrap(endpoint.addr)))

\* a transport is stored while an older one, connected to another address and
\* replaced by set_endpoint, is still open in a caller's hands
C1_Witness ==
    /\ endpoint.conn # None
    /\ \E s \in SockIds :
        /\ Some(s) # endpoint.conn
        /\ IsOpen(sockets[s])
        /\ sockets[s].peer # None
        /\ sockets[s].peer # Some(Sockaddr(Unwrap(endpoint.addr)))

\* ------------------------------------------------------------------ C2
\* C2: connect_endpoint entered while the Endpoint holds a transport goes from
\* the guard straight to its return with the "Connected" error; the Endpoint,
\* the transport's trace (no shutdown, no close), the number of sockets and the
\* number of protect invocations stay as they were on entry.
C2_AlreadyConnectedNoOp ==
    \A t \in Threads :
        (Inside(t, CePcs) /\ snap[t].ep.conn # None) =>
            /\ pc[t] \in {"ce_check", "ce_unlock"}
            /\ pc[t] = "ce_unlock" => result[t] = ErrConnected
            /\ endpoint = snap[t].ep
            /\ IsOpen(sockets[Unwrap(endpoint.conn)])
            /\ sockets[Unwrap(endpoint.conn)].trace = snap[t].trace
            /\ Len(sockets) = snap[t].nsock
            /\ Len(protectLog) = snap[t].nprot
            /\ local[t] = None

C2_Witness ==
    \E t \in Threads :
        /\ Inside(t, {"ce_unlock"})
        /\ result[t] = ErrConnected
        /\ snap[t].ep.conn # None

\* ------------------------------------------------------------------ C3
\* C3: connect_endpoint calls racing on one peer are serialised.  At most one
\* thread is past the lock; a thread past the guard sees no transport until it
\* stores its own, so a stored transport is never replaced; a call that found
\* no transport and an address returns Ok with the socket it created now in
\* the Endpoint, or else an error other than "Connected"; a call that found a
\* transport creates no socket and returns "Connected".
C3_ConnectRaceOneWinner ==
    \A t \in Threads :
        /\ pc[t] \in CePcs =>
             \A u \in Threads \ {t} : pc[u] \notin (CePcs \cup SePcs \cup SdPcs)
        /\ pc[t] \in CeWorking => endpoint.conn = None
        /\ (pc[t] = "ce_unlock" /\ snap[t].ep.conn = None /\ snap[t].ep.addr # None) =>
             IF result[t].kind = "Ok"
             THEN /\ endpoint.conn = Some(result[t].sock)
                  /\ result[t].sock = snap[t].nsock + 1
                  /\ Len(sockets) = snap[t].nsock + 1
             ELSE /\ result[t] # ErrConnected
                  /\ endpoint.conn = None
        /\ (pc[t] = "ce_unlock" /\ snap[t].ep.conn # None) =>
             /\ result[t] = ErrConnected
             /\ Len(sockets) = snap[t].nsock
             /\ endpoint.conn = snap[t].ep.conn

\* the winner has returned and holds the handle of the stored transport; the
\* loser that was waiting for the lock now returns "Connected"
C3_Witness ==
    \E t, u \in Threads :
        /\ t # u
        /\ endpoint.conn # None
        /\ endpoint.conn \subseteq handles[t]
        /\ pc[u] = "ce_unlock"
        /\ result[u] = ErrConnected

\* ------------------------------------------------------------------ C4
\* C4: set_endpoint(a) entered when the stored address equals a goes from the
\* comparison straight to its return; the Endpoint is as on entry, a transport
\* in it stays stored, open, and with no call added to its trace.
C4_SameAddrNoOp ==
    \A t \in Threads :
        (Inside(t, SePcs) /\ snap[t].ep.addr = arg[t].addr) =>
            /\ pc[t] \in {"se_check", "se_unlock"}
            /\ endpoint = snap[t].ep
            /\ local[t] = None
            /\ endpoint.conn # None =>
                 /\ IsOpen(sockets[Unwrap(endpoint.conn)])
                 /\ sockets[Unwrap(endpoint.conn)].trace = snap[t].trace

C4_Witness ==
    \E t \in Threads :
        /\ Inside(t, {"se_unlock"})
        /\ snap[t].ep.addr = arg[t].addr
        /\ endpoint.conn # None

\* ------------------------------------------------------------------ C5
\* C5: set_endpoint(a) entered when the stored address is absent or differs
\* from a.  Up to the store the Endpoint keeps the old address; the old
\* transport, if any, is taken out, shut down once, and dropped; at the return
\* the Endpoint is {a, none} and the old transport is shut down exactly once
\* (or already released), so the new address is never visible before the
\* shutdown.
C5_NewAddrShutsDownThenStores ==
    \A t \in Threads :
        (Inside(t, SePcs) /\ snap[t].ep.addr # arg[t].addr) =>
            LET old == snap[t].ep.conn
            IN  /\ pc[t] \in {"se_check", "se_take"} =>
                     /\ endpoint = snap[t].ep
                     /\ old # None => sockets[Unwrap(old)].trace = snap[t].trace
                /\ pc[t] = "se_shutdown" =>
                     /\ old # None /\ local[t] = old
                     /\ endpoint = Endpoint(snap[t].ep.addr, None)
                     /\ sockets[Unwrap(old)].trace = snap[t].trace
                /\ pc[t] = "se_drop" =>
                     /\ old # None /\ local[t] = old
                     /\ endpoint = Endpoint(snap[t].ep.addr, None)
                     /\ sockets[Unwrap(old)].trace = Append(snap[t].trace, "shutdown")
                /\ pc[t] = "se_store" =>
                     /\ endpoint = Endpoint(snap[t].ep.addr, None)
                     /\ old # None => ShutOnceOrClosed(Unwrap(old), snap[t].trace)
                /\ pc[t] = "se_unlock" =>
                     /\ endpoint = Endpoint(arg[t].addr, None)
                     /\ local[t] = None
                     /\ old # None => ShutOnceOrClosed(Unwrap(old), snap[t].trace)

\* set_endpoint returns having replaced an address that had a transport, which
\* a caller still holds open
C5_Witness ==
    \E t \in Threads :
        /\ Inside(t, {"se_unlock"})
        /\ snap[t].ep.addr # arg[t].addr
        /\ snap[t].ep.conn # None
        /\ IsOpen(sockets[Unwrap(snap[t].ep.conn)])
        /\ endpoint = Endpoint(arg[t].addr, None)

\* ------------------------------------------------------------------ C6
\* C6: shutdown_endpoint never changes the address.  Entered with a transport,
\* it takes it out, shuts it down once and drops it, and returns with the
\* Endpoint {same address, none}; entered with none, it goes straight to its
\* return, the Endpoint as on entry, never reaching the shutdown call.
C6_ShutdownKeepsAddr ==
    \A t \in Threads :
        Inside(t, SdPcs) =>
            LET old == snap[t].ep.conn
            IN  /\ endpoint.addr = snap[t].ep.addr
                /\ old = None =>
                     /\ pc[t] \in {"sd_take", "sd_unlock"}
                     /\ endpoint = snap[t].ep
                     /\ local[t] = None
                /\ (old # None /\ pc[t] = "sd_take") =>
                     /\ endpoint = snap[t].ep
                     /\ sockets[Unwrap(old)].trace = snap[t].trace
                /\ (old # None /\ pc[t] = "sd_shutdown") =>
                     /\ endpoint.conn = None /\ local[t] = old
                     /\ sockets[Unwrap(old)].trace = snap[t].trace
                /\ (old # None /\ pc[t] = "sd_drop") =>
                     /\ endpoint.conn = None /\ local[t] = old
                     /\ sockets[Unwrap(old)].trace = Append(snap[t].trace, "shutdown")
                /\ (old # None /\ pc[t] = "sd_unlock") =>
                     /\ endpoint.conn = None /\ local[t] = None
                     /\ ShutOnceOrClosed(Unwrap(old), snap[t].trace)

\* shutdown_endpoint returns having removed a transport; the address is still
\* there for the next connect_endpoint
C6_Witness ==
    \E t \in Threads :
        /\ Inside(t, {"sd_unlock"})
        /\ snap[t].ep.conn # None
        /\ endpoint.addr # None
        /\ endpoint.conn = None

\* ------------------------------------------------------------------ C7
\* the calls connect_endpoint has made on its new socket when it is at `at`
ChainUpTo(at, fwmark) ==
    LET marked == IF fwmark # None THEN <<"fwmark">> ELSE <<>>
        new == <<"socket", "protect">>
    IN  CASE at = "ce_fwmark" -> new
          [] at = "ce_nonblock" -> new \o marked
          [] at = "ce_reuse" -> new \o marked \o <<"nonblock">>
          [] at = "ce_bind" -> new \o marked \o <<"nonblock", "reuse">>
          [] at = "ce_connect" -> new \o marked \o <<"nonblock", "reuse", "bind">>
          [] OTHER -> new \o marked \o <<"nonblock", "reuse", "bind", "connect">>

\* C7: connect_endpoint's calls on its new socket are, in this order: socket,
\* protect, fwmark (only if a mark was given), nonblock, reuse, bind to the
\* port given, connect to the stored address.  The socket is not in the
\* Endpoint before all of them are made; the handle returned is the socket the
\* Endpoint then holds; and whatever the Endpoint holds is bound and connected.
C7_ConnectOrder ==
    /\ \A t \in Threads :
        /\ (Inside(t, CeWorking \ {"ce_socket"})) =>
             LET sock == sockets[Unwrap(local[t])]
             IN  /\ local[t] # None
                 /\ sock.trace = ChainUpTo(pc[t], arg[t].fwmark)
                 /\ endpoint.conn = None
                 /\ pc[t] = "ce_store" =>
                      /\ sock.port = Some(WildcardSockaddr(sock.version, Unwrap(arg[t].port)))
                      /\ sock.peer = Some(Sockaddr(Unwrap(endpoint.addr)))
                      /\ sock.mark = arg[t].fwmark
                      /\ sock.nonblock /\ sock.reuse
        /\ (Inside(t, {"ce_unlock"}) /\ result[t].kind = "Ok") =>
             LET sock == sockets[result[t].sock]
             IN  /\ endpoint.conn = Some(result[t].sock)
                 /\ local[t] = Some(result[t].sock)
                 /\ sock.trace = ChainUpTo("ce_unlock", arg[t].fwmark)
                 /\ sock.port = Some(WildcardSockaddr(sock.version, Unwrap(arg[t].port)))
                 /\ sock.peer = Some(Sockaddr(Unwrap(endpoint.addr)))
                 /\ sock.mark = arg[t].fwmark
    /\ endpoint.conn # None =>
         LET sock == sockets[Unwrap(endpoint.conn)]
         IN  /\ sock.port # None /\ sock.peer # None
             /\ sock.nonblock /\ sock.reuse
             /\ sock.trace \in { ChainUpTo("ce_unlock", m) : m \in FwMarks }

C7_Witness ==
    \E t \in Threads :
        /\ Inside(t, {"ce_unlock"})
        /\ result[t].kind = "Ok"
        /\ arg[t].fwmark # None
        /\ sockets[result[t].sock].mark = arg[t].fwmark

\* ------------------------------------------------------------------ C8
\* the calls of connect_endpoint that can fail after the socket exists
ChainErrors == {"SetSockOpt", "FCntl", "Bind", "Connect"}

\* C8: when connect_endpoint is about to return an error of a call made after
\* it created a socket, that socket's descriptor is closed and the Endpoint is
\* as on entry (same address, no transport).  In every state, each open
\* descriptor is referred to by the Endpoint, by a handle a caller holds, or by
\* the local of a method still running.
C8_FailureClosesAndNoLeak ==
    /\ \A t \in Threads :
        (Inside(t, {"ce_unlock"}) /\ Len(sockets) > snap[t].nsock
            /\ result[t].kind # "Ok") =>
            /\ result[t].kind \in ChainErrors
            /\ Len(sockets) = snap[t].nsock + 1
            /\ ~IsOpen(sockets[snap[t].nsock + 1])
            /\ sockets[snap[t].nsock + 1].closes = 1
            /\ endpoint = snap[t].ep
            /\ endpoint.conn = None
            /\ local[t] = None
    /\ \A s \in SockIds : IsOpen(sockets[s]) => Referrers(s) > 0

\* a connect_endpoint whose first socket failed (and is closed) was followed by
\* one that failed at connect and is about to return that error
C8_Witness ==
    \E t \in Threads :
        /\ Inside(t, {"ce_unlock"})
        /\ result[t].kind = "Connect"
        /\ Len(sockets) > snap[t].nsock
        /\ snap[t].nsock > 0
        /\ \A s \in SockIds : ~IsOpen(sockets[s])

\* ------------------------------------------------------------------ C9
\* C9: a descriptor is closed at most once, and it is closed exactly when the
\* value has no owner left: the owner count of an open socket is the number of
\* its referrers (Endpoint, locals, handles) and is positive, a closed socket
\* has neither owner nor referrer.  A handle always refers to an open
\* descriptor; if the socket is no longer in the Endpoint nor in the local of
\* a method taking it out, the last call made on it was shutdown.
C9_ClosedOnceAfterLastOwner ==
    /\ \A s \in SockIds :
        /\ sockets[s].closes <= 1
        /\ sockets[s].owners = Referrers(s)
        /\ IsOpen(sockets[s]) <=> sockets[s].owners > 0
    /\ \A t \in Threads : \A s \in handles[t] :
        /\ IsOpen(sockets[s])
        /\ (endpoint.conn # Some(s) /\ \A u \in Threads : local[u] # Some(s)) =>
             /\ sockets[s].trace # <<>>
             /\ sockets[s].trace[Len(sockets[s].trace)] = "shutdown"
             /\ sockets[s].peer # None

\* the Endpoint has a new address and no transport, and a caller still holds
\* the handle of the transport that was removed: shut down, still open
C9_Witness ==
    \E t \in Threads : \E s \in handles[t] :
        /\ endpoint.conn = None
        /\ \A u \in Threads : local[u] = None
        /\ IsOpen(sockets[s])
        /\ endpoint.addr # None
        /\ sockets[s].peer # Some(Sockaddr(Unwrap(endpoint.addr)))
        /\ sockets[s].trace[Len(sockets[s].trace)] = "shutdown"

\* ------------------------------------------------------------------ C10
\* C10: the protect callback has been invoked exactly once for each socket
\* created, in creation order, with that socket's descriptor; on an open
\* socket it is the first thing after socket() and comes before every other
\* call; a connect_endpoint that returns the socket-creation error has invoked
\* it zero times.
C10_ProtectOncePerSocket ==
    /\ Len(protectLog) = Len(sockets)
    /\ \A i \in 1..Len(protectLog) : protectLog[i] = sockets[i].fd /\ sockets[i].fd = i
    /\ \A s \in SockIds : IsOpen(sockets[s]) =>
         LET tr == sockets[s].trace
         IN  /\ Len(tr) >= 2 /\ tr[1] = "socket" /\ tr[2] = "protect"
             /\ \A i \in 3..Len(tr) : tr[i] \notin {"socket", "protect"}
    /\ \A t \in Threads :
        (Inside(t, {"ce_unlock"}) /\ result[t].kind = "Socket") =>
            /\ Len(protectLog) = snap[t].nprot
            /\ Len(sockets) = snap[t].nsock

\* two sockets were created and protected, and a creation failed after them
C10_Witness ==
    \E t \in Threads :
        /\ Inside(t, {"ce_unlock"})
        /\ result[t].kind = "Socket"
        /\ Len(protectLog) = MaxSockets
        /\ \E s \in SockIds : IsOpen(sockets[s]) /\ Len(sockets[s].trace) > 2

\* ------------------------------------------------------------------ C11
\* the condition a caller matches on: the variant of Error
Condition(r) == r.kind

\* C11: the "already connected" outcome is a condition of its own: every
\* failure connect_endpoint returns when it found no transport (socket
\* creation, configuration, bind, connect) is a condition other than the one
\* of the "already connected" outcome.
C11_AlreadyConnectedDistinct ==
    \A t \in Threads :
        (Inside(t, {"ce_unlock"}) /\ snap[t].ep.conn = None
            /\ result[t].kind \notin {"Ok", "Panic"}) =>
            Condition(result[t]) # Condition(ErrConnected)

\* ------------------------------------------------------------------ C12
\* positions at which a mutating method holds the write guard
Mutating == SePcs \cup SdPcs \cup CePcs

\* set_endpoint has taken the old transport out and not yet stored the new
\* address
SeHalfUpdated(t) == pc[t] \in {"se_shutdown", "se_drop", "se_store"}

\* C12: while a thread holds the guard returned by endpoint(), the Endpoint
\* is the one it saw when the guard was granted, no thread is inside
\* set_endpoint, connect_endpoint or shutdown_endpoint past the lock, and in
\* particular none is between set_endpoint's take() and its store.
C12_SnapshotConsistent ==
    \A t \in Threads :
        pc[t] = "rd_held" =>
            /\ t \in rwlock.readers
            /\ endpoint = snap[t].ep
            /\ rwlock.writer = {}
            /\ \A u \in Threads : pc[u] \notin Mutating /\ ~SeHalfUpdated(u)

\* two readers hold the guard at the same time, on a connected Endpoint
C12_Witness ==
    /\ \A t \in Threads : pc[t] = "rd_held"
    /\ Cardinality(rwlock.readers) = NumThreads
    /\ endpoint.conn # None

\* ------------------------------------------------------------------ C13
\* set_endpoint of thread t has replaced a transport: it found one on entry
\* and is past the shutdown of it
Replaced(t) ==
    /\ Inside(t, {"se_drop", "se_store", "se_unlock"})
    /\ snap[t].ep.conn # None
    /\ snap[t].ep.addr # arg[t].addr

\* C13: a transport stays connected to the address it was created for: once
\* set_endpoint has replaced it, it is (if still open) connected to the old
\* address, never the new one, and shut down; and a datagram sent on any
\* handle either is not sent (write returns 0) or went to the address the
\* Endpoint held at that moment, on a transport that was not shut down.
C13_ReplacedKeepsOldAddr ==
    /\ \A t \in Threads :
        Replaced(t) =>
            LET old == sockets[Unwrap(snap[t].ep.conn)]
            IN  IsOpen(old) =>
                    /\ old.peer = Some(Sockaddr(Unwrap(snap[t].ep.addr)))
                    /\ old.peer # Some(Sockaddr(Unwrap(arg[t].addr)))
                    /\ WasShutDown(old)
    /\ \A t \in Threads :
        pc[t] = "wr_ret" =>
            LET r == result[t]
            IN  \/ r.n = 0
                \/ /\ r.ep.addr # None
                   /\ r.to = Some(Sockaddr(Unwrap(r.ep.addr)))
                   /\ IsOpen(sockets[r.sock]) =>
                          sockets[r.sock].peer = r.to

\* a send on a handle whose transport set_endpoint has replaced: the handle
\* is still open and connected to the old address, the Endpoint holds another
\* address, and write returned 0
C13_Witness ==
    \E t \in Threads :
        /\ pc[t] = "wr_ret"
        /\ result[t].n = 0
        /\ IsOpen(sockets[result[t].sock])
        /\ WasShutDown(sockets[result[t].sock])
        /\ endpoint.addr # None
        /\ sockets[result[t].sock].peer # None
        /\ sockets[result[t].sock].peer # Some(Sockaddr(Unwrap(endpoint.addr)))

\* ------------------------------------------------------------------ C14
\* positions at which set_allowed_ips / add_allowed_ips hold the write guard
AllowedWriting == {"sa_store", "sa_unlock", "aa_insert", "aa_unlock"}

\* positions at which is_allowed_ip / allowed_ips hold the read guard
AllowedReading == {"ia_find", "ia_unlock", "ai_iter", "ai_unlock"}

\* is_allowed_ip(x) answered from the table
IsAllowedIp(table, x) == Find(table, x) # None

\* C14: a reader of the allowed-IP table never runs while set_allowed_ips or
\* add_allowed_ips is between its lock and its return, the table it reads is
\* the one the last finished call left, and the answer is_allowed_ip gives is
\* the answer of that table: never of a table add_allowed_ips has inserted
\* only some of its ranges into.
C14_ReadersSeeWholeUpdates ==
    \A t \in Threads :
        pc[t] \in AllowedReading =>
            /\ \A u \in Threads : pc[u] \notin AllowedWriting
            /\ allowed_ips = committed
            /\ pc[t] = "ia_unlock" =>
                   result[t].val = IsAllowedIp(committed, Unwrap(aarg[t].addr))
            /\ pc[t] = "ai_unlock" => result[t].val = Iter(committed)

\* is_allowed_ip is called while add_allowed_ips has inserted the first of its
\* two ranges: the reader is still waiting for the lock
C14_Witness ==
    \E t, u \in Threads :
        /\ pc[t] = "ia_lock"
        /\ pc[u] = "aa_insert" /\ aarg[u].next = 2 /\ Len(aarg[u].list) = 2
        /\ allowed_ips # committed

\* ------------------------------------------------------------------ C15
\* some range of the list contains x
ListContains(list, x) == \E i \in DOMAIN list : Contains(list[i], x)

\* C15: when set_allowed_ips(L) has stored its table, an address is allowed
\* exactly when some range of L contains it, whatever was stored before.
C15_SetReplacesTable ==
    \A t \in Threads :
        (pc[t] = "sa_unlock" /\ alock.writer = {t}) =>
            \A x \in Probes :
                IsAllowedIp(allowed_ips, x) <=> ListContains(aarg[t].list, x)

\* set_allowed_ips([B]) after the table held a range A: an address of A that
\* no range of B contains was allowed and is not any more
C15_Witness ==
    \E t \in Threads : \E x \in Probes :
        /\ pc[t] = "sa_unlock"
        /\ Len(aarg[t].list) = 1
        /\ IsAllowedIp(committed, x)
        /\ ~ListContains(aarg[t].list, x)
        /\ ~IsAllowedIp(allowed_ips, x)

\* ------------------------------------------------------------------ C16
\* C16: when add_allowed_ips(L) has finished its loop, an address is allowed
\* exactly when it was allowed before the call or some range of L contains
\* it, every range stored before the call is still stored, and if every range
\* of L was stored already (as after a first call with L) the table is the
\* one from before the call.
C16_AddOnlyAdds ==
    \A t \in Threads :
        (pc[t] = "aa_unlock" /\ alock.writer = {t}) =>
            /\ \A x \in Probes :
                IsAllowedIp(allowed_ips, x) <=>
                    (IsAllowedIp(committed, x) \/ ListContains(aarg[t].list, x))
            /\ Iter(committed) \subseteq Iter(allowed_ips)
            /\ InsertAll(committed, aarg[t].list) = committed =>
                   allowed_ips = committed

\* add_allowed_ips(L), with two ranges in L, called a second time: the ranges
\* were all stored already, next to a range that is not in L
C16_Witness ==
    \E t \in Threads :
        /\ pc[t] = "aa_unlock"
        /\ Len(aarg[t].list) = 2
        /\ aarg[t].list[1] # aarg[t].list[2]
        /\ InsertAll(committed, aarg[t].list) = committed
        /\ Collect(aarg[t].list) # committed
        /\ allowed_ips = committed

\* ------------------------------------------------------------------ C17
\* the largest prefix of a family: the guards `cidr <= 32` / `cidr <= 128`
MaxPrefix(addr) == IF addr.fam = 4 THEN 32 ELSE 128

\* the two pieces of an "address/prefix" text, parsed on their own
AddrOf(txt) == ParseIpAddr(Split(txt, "/")[1])

PrefixOf(txt) == ParseU8(Split(txt, "/")[2])

\* the text names an address and a prefix larger than the address's family has
PrefixTooLarge(txt) ==
    /\ AddrOf(txt) # None
    /\ PrefixOf(txt) # None
    /\ Unwrap(PrefixOf(txt)) > MaxPrefix(Unwrap(AddrOf(txt)))

SameFamily(sock, a) ==
    \/ sock.version = 4 /\ a.fam = 4
    \/ sock.version = 6 /\ a.fam = 6

\* C18: while connect_endpoint holds a socket it created, the Endpoint's
\* address is set and is the one seen on entry, and the socket's version is
\* the family of that address; once connect has been called the socket is
\* connected to that address; and connect_endpoint never unwinds on a peer
\* that has an address, so the family assertions of connect4 / connect6 hold.
C18_FamilyMatchesAddr ==
    \A t \in Threads :
        /\ (Inside(t, CePcs) /\ local[t] # None) =>
            LET sock == sockets[Unwrap(local[t])]
            IN  /\ endpoint.addr # None
                /\ endpoint.addr = snap[t].ep.addr
                /\ SameFamily(sock, Unwrap(endpoint.addr))
                /\ pc[t] = "ce_store" =>
                       sock.peer = Some(Sockaddr(Unwrap(endpoint.addr)))
        /\ (Inside(t, CePcs) /\ result[t] = Panic) => snap[t].ep.addr = None

\* connect_endpoint has connected a version 6 socket to a V6 address
C18_Witness ==
    \E t \in Threads :
        /\ Inside(t, {"ce_store"})
        /\ sockets[Unwrap(local[t])].version = 6
        /\ Unwrap(endpoint.addr).fam = 6
        /\ sockets[Unwrap(local[t])].peer # None

\* ------------------------------------------------------------------ C19
\* C19: connect_endpoint unwinds only on an Endpoint with no address and no
\* transport; when it does, the Endpoint is still { None, None }, no socket
\* has been created and the protect callback has not been invoked since the
\* method took the lock, the method holds no socket; and a thread that has
\* unwound holds neither guard of the Endpoint's lock.
C19_NoAddrAborts ==
    \A t \in Threads :
        /\ (Inside(t, {"ce_unlock"}) /\ result[t] = Panic) =>
            /\ snap[t].ep = Endpoint(None, None)
            /\ endpoint = Endpoint(None, None)
            /\ Len(sockets) = snap[t].nsock
            /\ Len(protectLog) = snap[t].nprot
            /\ local[t] = None
        /\ pc[t] = "dead" => t \notin rwlock.writer /\ t \notin rwlock.readers

\* after a thread has unwound from connect_endpoint, another thread has given
\* the peer an address and is storing a transport for it
C19_Witness ==
    \E t, u \in Threads :
        /\ pc[t] = "dead"
        /\ Inside(u, {"ce_store"})

\* ------------------------------------------------------------------ C20
\* C20: under fair scheduling every call of set_endpoint, connect_endpoint
\* and shutdown_endpoint that is waiting for the lock comes to its end: the
\* thread is back at its caller, or has unwound.
C20_CallsReturn ==
    \A t \in Threads :
        (pc[t] \in {"se_lock", "ce_lock", "sd_lock"}) ~> (pc[t] \in {"idle", "dead"})

\* a call of set_endpoint is waiting for the lock while another thread holds
\* a guard from endpoint() on a connected Endpoint
C20_Witness ==
    \E t, u \in Threads :
        /\ pc[t] = "se_lock"
        /\ pc[u] = "rd_held"
        /\ endpoint.conn # None

====
